---- MODULE Spec2Model ----
(***************************************************************************)
(* A model of c-ray-mt (src/dep/c-ray.c): the two render entry points      *)
(* cray_f and cray_mt, the worker threads and their start barrier, the     *)
(* scanline partition, the process-wide state that survives from one       *)
(* render invocation to the next, ray_sphere's root selection and the      *)
(* trace <-> shade recursion.                                              *)
(*                                                                         *)
(* Abstractions.                                                           *)
(*  - A pixel colour is the term PixelColor: the record of everything the  *)
(*    computation of that pixel reads (coordinates, image parameters,      *)
(*    number of lights, jitter scale factor and jitter table when a        *)
(*    jittered sample is taken).  Equal terms are equal colours.           *)
(*  - The jitter tables are one value, urand: the identity of the table    *)
(*    contents rand() produced.                                            *)
(*  - sf (the static of get_sample_pos) holds the width w it was computed  *)
(*    from, standing for 1.5 / w; 0 stands for 0.0.                        *)
(*  - The double accumulator sl of cray_mt is k additions of yres /        *)
(*    thread_num; when the exact sum is an integer and the quotient is not *)
(*    representable the rounded sum may lie just below it (sl.low).        *)
(*  - ray_sphere distances are integers in units of 1e-6.                  *)
(***************************************************************************)
EXTENDS Integers, Naturals, Sequences, FiniteSets, TLC

\* ---- program constants -------------------------------------------------
MAX_LIGHTS == 16
MAX_RAY_DEPTH == 5
ERR_MARGIN == 1
ONE == 1000000
SCENE_LIGHTS == 2

\* ---- bounds of the model -----------------------------------------------
MaxInv == 2
MaxThreads == 2
MaxXres == 2
MaxYres == 2
MaxSamples == 2
NJit == 2
PartMaxH == 12
MaxRays == 2
MaxSpheres == 2
RerunThreads == 6
RerunHeight == 8

VARIABLES
    xres, yres, rays_per_pixel,   \* image parameters (globals)
    lnum,                         \* number of stored lights
    obj_list,                     \* "null" | "valid" | "freed"
    sf,                           \* static sf of get_sample_pos
    start,                        \* the start flag
    urand,                        \* jitter tables
    threads,                      \* thread tables: <<inv, idx>> -> thread_data
    pixels,                       \* framebuffers: inv -> (index -> colour)
    wk,                           \* worker threads: <<inv, idx>> -> [pc, i]
    pc, inv, thread_num, i, sl,   \* the driver: position, invocation, locals
    hist,                         \* inv -> how the invocation went
    out,                          \* last image written by cray_f / cray_mt
    ub,                           \* undefined behaviour met so far
    rs,                           \* ray_sphere: call and result
    tr                            \* trace/shade: call chain of one primary ray

vars == <<xres, yres, rays_per_pixel, lnum, obj_list, sf, start, urand,
          threads, pixels, wk, pc, inv, thread_num, i, sl, hist, out, ub,
          rs, tr>>

renderVars == <<xres, yres, rays_per_pixel, lnum, obj_list, sf, start, urand,
                threads, pixels, wk, pc, inv, thread_num, i, sl, hist, out, ub>>

\* no image written yet; a pixel malloc left uninitialised; a pixel computed
\* from released scene memory
None == [tag |-> "none"]
Uninit == [tag |-> "uninit"]
Garbage == [tag |-> "garbage"]

\* ---- pure helpers ------------------------------------------------------

\* the colour render_scanline / render packs into pixel (x, y): a term over
\* everything get_primary_ray, get_sample_pos, jitter, trace and shade read
PixelColor(x, y, samples, sfv) ==
    IF obj_list # "valid" THEN Garbage
    ELSE [tag |-> "color", x |-> x, y |-> y, w |-> xres, h |-> yres, n |-> samples,
          lights |-> lnum,
          sfw |-> IF samples > 1 THEN sfv ELSE 0,
          jit |-> IF samples > 1 THEN urand ELSE 0]

\* get_sample_pos: the scale factor is computed on the first call only
SfAfterCall(sfv, w) == IF sfv = 0 THEN w ELSE sfv

\* render_scanline: the framebuffer after row sl has been rendered with
\* row stride xsz; indices outside the buffer are not part of it
RowIndices(xsz, row) == { row * xsz + x : x \in 0..(xsz - 1) }

RenderScanline(fb, xsz, row, samples, sfv) ==
    [p \in DOMAIN fb |->
        IF p \in RowIndices(xsz, row)
        THEN PixelColor(p - row * xsz, row, samples, sfv)
        ELSE fb[p]]

\* yres / thread_num is exactly representable as a double
Dyadic(h, n) == \E m \in 0..10 : (h * (2 ^ m)) % n = 0

\* the rounded sum of k additions may fall just below an integer value
LowChoices(k, h, n) ==
    IF k > 0 /\ (k * h) % n = 0 /\ ~Dyadic(h, n) THEN {FALSE, TRUE} ELSE {FALSE}

\* (int)sl
IntCast(s, h, n) == ((s.k * h) \div n) - (IF s.low THEN 1 ELSE 0)

\* a mutant of LoopCount: the count is taken one row too long
LoopCountOneMore(st, nsl, h, n) == IntCast(nsl, h, n) - st + 1

\* the sl_count the loop body stores for a worker (line 669)
LoopCount(st, nsl, h, n) == IntCast(nsl, h, n) - st

\* a mutant of LastCount: the last row is left out
LastCountOneLess(h, st) == h - 1 - st

\* the sl_count line 677 stores for the last worker
LastCount(h, st) == h - st

\* load_scene: lights are appended at lnum, which is never reset
LnumAfterLoad(n) == n + SCENE_LIGHTS

UbAfterLoad(n) == IF n + SCENE_LIGHTS > MAX_LIGHTS THEN {"lights_overflow"} ELSE {}

NewBuffer(w, h) == [p \in 0..(w * h - 1) |-> Uninit]

\* free: the entries of f under keys are gone
Drop(f, keys) == [k \in (DOMAIN f) \ keys |-> f[k]]

Workers == DOMAIN wk

WorkersOf(k) == { w \in Workers : w[1] = k }

\* ---- initial state -----------------------------------------------------
RenderInit ==
    /\ xres = 800 /\ yres = 600 /\ rays_per_pixel = 1
    /\ lnum = 0
    /\ obj_list = "null"
    /\ sf = 0
    /\ start = 0
    /\ urand = 0
    /\ threads = <<>>
    /\ pixels = <<>>
    /\ wk = <<>>
    /\ pc = "idle" /\ inv = 0 /\ thread_num = 0 /\ i = 0
    /\ sl = [k |-> 0, low |-> FALSE]
    /\ hist = <<>>
    /\ out = [f |-> None, mt |-> None]
    /\ ub = {}

RsIdle == [pc |-> "idle"]
TrIdle == [pc |-> "idle"]

Init == RenderInit /\ rs = RsIdle /\ tr = TrIdle

\* ---- the driver: entry, early returns ----------------------------------

\* lines 577-590 / 633-646: parameters are stored, then fopen or the pixel
\* buffer allocation fails and the function returns
CrayEarlyReturn(kind, x, y, s, why) ==
    /\ pc = "idle" /\ inv < MaxInv
    /\ inv' = inv + 1
    /\ xres' = x /\ yres' = y /\ rays_per_pixel' = s
    /\ hist' = Append(hist, [kind |-> kind, status |-> why, w |-> x, h |-> y])
    /\ UNCHANGED <<lnum, obj_list, sf, start, urand, threads, pixels, wk, pc,
                   thread_num, i, sl, out, ub, rs, tr>>

\* cray_f, lines 577-598
CrayFBegin(x, y, s, jit) ==
    /\ pc = "idle" /\ inv < MaxInv
    /\ inv' = inv + 1
    /\ xres' = x /\ yres' = y /\ rays_per_pixel' = s
    /\ pixels' = pixels @@ ((inv + 1) :> NewBuffer(x, y))
    /\ lnum' = LnumAfterLoad(lnum)
    /\ ub' = ub \cup UbAfterLoad(lnum)
    /\ obj_list' = "valid"
    /\ urand' = jit
    /\ pc' = "f_render" /\ i' = 0
    /\ hist' = Append(hist, [kind |-> "f", status |-> "setup", w |-> x, h |-> y])
    /\ UNCHANGED <<sf, start, threads, wk, thread_num, sl, out, rs, tr>>

\* render, lines 549-569: one row of the sequential render
CrayFRow ==
    /\ pc = "f_render" /\ i < yres
    /\ pixels' = [pixels EXCEPT ![inv] =
                    RenderScanline(@, xres, i, rays_per_pixel, SfAfterCall(sf, xres))]
    /\ sf' = SfAfterCall(sf, xres)
    /\ i' = i + 1
    /\ UNCHANGED <<xres, yres, rays_per_pixel, lnum, obj_list, start, urand,
                   threads, wk, pc, inv, thread_num, sl, hist, out, ub, rs, tr>>

\* cray_f, lines 600-624: write the image, free the buffer and the spheres
CrayFFinish ==
    /\ pc = "f_render" /\ i = yres
    /\ out' = [out EXCEPT !.f = [tag |-> "image", w |-> xres, h |-> yres, n |-> rays_per_pixel,
                                 tn |-> 0, jit |-> urand, px |-> pixels[inv]]]
    /\ pixels' = Drop(pixels, {inv})
    /\ obj_list' = "freed"
    /\ hist' = [hist EXCEPT ![inv].status = "finished"]
    /\ pc' = "idle"
    /\ UNCHANGED <<xres, yres, rays_per_pixel, lnum, sf, start, urand, threads,
                   wk, inv, thread_num, i, sl, ub, rs, tr>>

\* ---- the driver: cray_mt -----------------------------------------------

\* cray_mt, lines 633-665: parameters, buffer, scene, jitter tables, clamp
\* of thread_num, thread table, sl = 0.0
CrayMtBegin(tn, x, y, s, jit) ==
    /\ pc = "idle" /\ inv < MaxInv
    /\ inv' = inv + 1
    /\ xres' = x /\ yres' = y /\ rays_per_pixel' = s
    /\ pixels' = pixels @@ ((inv + 1) :> NewBuffer(x, y))
    /\ lnum' = LnumAfterLoad(lnum)
    /\ ub' = ub \cup UbAfterLoad(lnum)
    /\ obj_list' = "valid"
    /\ urand' = jit
    /\ thread_num' = IF tn > y THEN y ELSE tn
    /\ sl' = [k |-> 0, low |-> FALSE]
    /\ pc' = "mt_create" /\ i' = 0
    /\ hist' = Append(hist, [kind |-> "mt", status |-> "setup", w |-> x, h |-> y])
    /\ UNCHANGED <<sf, start, threads, wk, out, rs, tr>>

\* cray_mt, lines 659-662: the thread table cannot be allocated; the scene
\* and the tables have been built, the pixel buffer is not released
CrayMtTableFail(tn, x, y, s, jit) ==
    /\ pc = "idle" /\ inv < MaxInv
    /\ inv' = inv + 1
    /\ xres' = x /\ yres' = y /\ rays_per_pixel' = s
    /\ pixels' = pixels @@ ((inv + 1) :> NewBuffer(x, y))
    /\ lnum' = LnumAfterLoad(lnum)
    /\ ub' = ub \cup UbAfterLoad(lnum)
    /\ obj_list' = "valid"
    /\ urand' = jit
    /\ thread_num' = IF tn > y THEN y ELSE tn
    /\ hist' = Append(hist, [kind |-> "mt", status |-> "alloc_failed", w |-> x, h |-> y])
    /\ UNCHANGED <<sf, start, threads, wk, pc, i, sl, out, rs, tr>>

\* lines 667-670: the thread_data entry of worker i and the advanced sl
ThreadEntry(low) ==
    LET st  == IntCast(sl, yres, thread_num)
        nsl == [k |-> sl.k + 1, low |-> low]
    IN  [sl_start |-> st, sl_count |-> LoopCount(st, nsl, yres, thread_num)]

\* cray_mt, lines 666-676, one iteration in which pthread_create succeeds
CrayMtCreate ==
    /\ pc = "mt_create" /\ i < thread_num
    /\ \E low \in LowChoices(sl.k + 1, yres, thread_num) :
         /\ threads' = threads @@ (<<inv, i>> :> ThreadEntry(low))
         /\ sl' = [k |-> sl.k + 1, low |-> low]
    /\ wk' = wk @@ (<<inv, i>> :> [pc |-> "lock", i |-> 0])
    /\ i' = i + 1
    /\ UNCHANGED <<xres, yres, rays_per_pixel, lnum, obj_list, sf, start, urand,
                   pixels, pc, inv, thread_num, hist, out, ub, rs, tr>>

\* cray_mt, lines 666-675, the iteration in which pthread_create fails:
\* return EXIT_FAILURE; workers created so far stay as they are
CrayMtCreateFail ==
    /\ pc = "mt_create" /\ i < thread_num
    /\ \E low \in LowChoices(sl.k + 1, yres, thread_num) :
         /\ threads' = threads @@ (<<inv, i>> :> ThreadEntry(low))
         /\ sl' = [k |-> sl.k + 1, low |-> low]
    /\ hist' = [hist EXCEPT ![inv].status = "spawn_failed"]
    /\ pc' = "idle"
    /\ UNCHANGED <<xres, yres, rays_per_pixel, lnum, obj_list, sf, start, urand,
                   pixels, wk, inv, thread_num, i, out, ub, rs, tr>>

\* cray_mt, line 677: the last worker's count absorbs the remainder
CrayMtFinalize ==
    /\ pc = "mt_create" /\ i = thread_num
    /\ threads' = [threads EXCEPT ![<<inv, thread_num - 1>>].sl_count =
                        LastCount(yres, threads[<<inv, thread_num - 1>>].sl_start)]
    /\ pc' = "mt_release"
    /\ UNCHANGED <<xres, yres, rays_per_pixel, lnum, obj_list, sf, start, urand,
                   pixels, wk, inv, thread_num, i, sl, hist, out, ub, rs, tr>>

\* pthread_cond_broadcast: every thread blocked in pthread_cond_wait wakes
Broadcast(w) == [t \in DOMAIN w |->
                    IF w[t].pc = "waiting" THEN [w[t] EXCEPT !.pc = "woken"] ELSE w[t]]

\* cray_mt, lines 681-685: under the mutex, set the flag and broadcast
CrayMtRelease ==
    /\ pc = "mt_release"
    /\ start' = 1
    /\ wk' = Broadcast(wk)
    /\ hist' = [hist EXCEPT ![inv].status = "released"]
    /\ pc' = "mt_join" /\ i' = 0
    /\ UNCHANGED <<xres, yres, rays_per_pixel, lnum, obj_list, sf, urand, threads,
                   pixels, inv, thread_num, sl, out, ub, rs, tr>>

\* cray_mt, lines 687-689: pthread_join returns once worker i has returned
CrayMtJoin ==
    /\ pc = "mt_join" /\ i < thread_num
    /\ wk[<<inv, i>>].pc = "done"
    /\ i' = i + 1
    /\ UNCHANGED <<xres, yres, rays_per_pixel, lnum, obj_list, sf, start, urand,
                   threads, pixels, wk, pc, inv, thread_num, sl, hist, out, ub,
                   rs, tr>>

\* cray_mt, lines 690-715: write the image, free buffer, table and spheres
CrayMtFinish ==
    /\ pc = "mt_join" /\ i = thread_num
    /\ out' = [out EXCEPT !.mt = [tag |-> "image", w |-> xres, h |-> yres, n |-> rays_per_pixel,
                                  tn |-> thread_num, jit |-> urand,
                                  px |-> pixels[inv]]]
    /\ pixels' = Drop(pixels, {inv})
    /\ threads' = Drop(threads, { t \in DOMAIN threads : t[1] = inv })
    /\ wk' = Drop(wk, WorkersOf(inv))
    /\ obj_list' = "freed"
    /\ hist' = [hist EXCEPT ![inv].status = "finished"]
    /\ pc' = "idle"
    /\ UNCHANGED <<xres, yres, rays_per_pixel, lnum, sf, start, urand, inv,
                   thread_num, i, sl, ub, rs, tr>>

\* ---- the workers: thread_func ------------------------------------------

\* lines 525-529: with the mutex held, test the flag; wait if it is clear
WorkerBarrier(w) ==
    /\ wk[w].pc \in {"lock", "woken"}
    /\ wk' = [wk EXCEPT ![w].pc = IF start = 0 THEN "waiting" ELSE "render"]
    /\ UNCHANGED <<xres, yres, rays_per_pixel, lnum, obj_list, sf, start, urand,
                   threads, pixels, pc, inv, thread_num, i, sl, hist, out, ub,
                   rs, tr>>

\* line 527: pthread_cond_wait may return without a broadcast
WorkerSpuriousWakeup(w) ==
    /\ wk[w].pc = "waiting"
    /\ wk' = [wk EXCEPT ![w].pc = "woken"]
    /\ UNCHANGED <<xres, yres, rays_per_pixel, lnum, obj_list, sf, start, urand,
                   threads, pixels, pc, inv, thread_num, i, sl, hist, out, ub,
                   rs, tr>>

\* the row the worker renders next
WorkerRow(w) == wk[w].i + threads[w].sl_start

\* lines 531-533: one iteration: render_scanline on the next row of the
\* range, with the image parameters as the globals hold them now
WorkerRender(w) ==
    /\ wk[w].pc = "render"
    /\ wk[w].i < threads[w].sl_count
    /\ pixels' = [pixels EXCEPT ![w[1]] =
                    RenderScanline(@, xres, WorkerRow(w), rays_per_pixel,
                                   SfAfterCall(sf, xres))]
    /\ sf' = SfAfterCall(sf, xres)
    /\ ub' = ub \cup
              (IF RowIndices(xres, WorkerRow(w)) \subseteq DOMAIN pixels[w[1]]
               THEN {} ELSE {"oob_write"})
              \cup (IF obj_list = "valid" THEN {} ELSE {"use_after_free"})
    /\ wk' = [wk EXCEPT ![w].i = @ + 1]
    /\ UNCHANGED <<xres, yres, rays_per_pixel, lnum, obj_list, start, urand,
                   threads, pc, inv, thread_num, i, sl, hist, out, rs, tr>>

\* lines 531, 535: the loop is over, the thread returns
WorkerExit(w) ==
    /\ wk[w].pc = "render"
    /\ wk[w].i >= threads[w].sl_count
    /\ wk' = [wk EXCEPT ![w].pc = "done"]
    /\ UNCHANGED <<xres, yres, rays_per_pixel, lnum, obj_list, sf, start, urand,
                   threads, pixels, pc, inv, thread_num, i, sl, hist, out, ub,
                   rs, tr>>

\* ---- the program -------------------------------------------------------
Widths == 1..MaxXres
Heights == 1..MaxYres
Samples == 1..MaxSamples
ThreadNums == 1..MaxThreads
Tables == 1..NJit

RenderNext ==
    \/ \E k \in {"f", "mt"}, x \in Widths, y \in Heights, s \in Samples,
          why \in {"fopen_failed", "alloc_failed"} : CrayEarlyReturn(k, x, y, s, why)
    \/ \E x \in Widths, y \in Heights, s \in Samples, j \in Tables :
          CrayFBegin(x, y, s, j)
    \/ CrayFRow
    \/ CrayFFinish
    \/ \E tn \in ThreadNums, x \in Widths, y \in Heights, s \in Samples, j \in Tables :
          CrayMtBegin(tn, x, y, s, j)
    \/ \E tn \in ThreadNums, x \in Widths, y \in Heights, s \in Samples, j \in Tables :
          CrayMtTableFail(tn, x, y, s, j)
    \/ CrayMtCreate
    \/ CrayMtCreateFail
    \/ CrayMtFinalize
    \/ CrayMtRelease
    \/ CrayMtJoin
    \/ CrayMtFinish
    \/ \E w \in Workers : WorkerBarrier(w)
    \/ \E w \in Workers : WorkerSpuriousWakeup(w)
    \/ \E w \in Workers : WorkerRender(w)
    \/ \E w \in Workers : WorkerExit(w)

Next == RenderNext

Spec == Init /\ [][Next]_vars

\* ---- the partition alone -----------------------------------------------
\* the driver of one cray_mt invocation up to line 677, for every height
\* and every requested worker count up to PartMaxH
PartNext ==
    \/ \E tn \in 1..PartMaxH, y \in 1..PartMaxH : CrayMtBegin(tn, 1, y, 1, 1)
    \/ CrayMtCreate
    \/ CrayMtFinalize

SpecPart == Init /\ [][PartNext]_vars

\* ---- ray_sphere --------------------------------------------------------
\* the roots are t1 = mid + half and t2 = mid - half, in units of 1e-6:
\* mid is -b / 2a and half is sqrt(d) / 2a, a > 0
RsMids == {-ONE, -1, 0, ERR_MARGIN, 2, ONE \div 2, ONE, ONE + 1, 2 * ONE}
RsHalves == {0, 1, 2, ONE \div 2, ONE, 3 * ONE}

RsT1(c) == c.mid + c.half
RsT2(c) == c.mid - c.half

\* line 393
RsReject(t1, t2) ==
    (t1 < ERR_MARGIN /\ t2 < ERR_MARGIN) \/ (t1 > ONE /\ t2 > ONE)

\* lines 396-398
RsDist(t1, t2) ==
    LET u1 == IF t1 < ERR_MARGIN THEN t2 ELSE t1
        u2 == IF t2 < ERR_MARGIN THEN u1 ELSE t2
    IN  IF u1 < u2 THEN u1 ELSE u2

RsCalls == [pc : {"call"}, d_neg : BOOLEAN, mid : RsMids, half : RsHalves,
            sp : BOOLEAN]

\* ray_sphere, lines 387-411: the return value and, when sp is not NULL,
\* the distance stored through it
RaySphere ==
    /\ rs.pc = "call"
    /\ rs' = IF rs.d_neg \/ RsReject(RsT1(rs), RsT2(rs))
             THEN [pc |-> "ret", d_neg |-> rs.d_neg, mid |-> rs.mid,
                   half |-> rs.half, sp |-> rs.sp, hit |-> 0, dist |-> 0]
             ELSE [pc |-> "ret", d_neg |-> rs.d_neg, mid |-> rs.mid,
                   half |-> rs.half, sp |-> rs.sp, hit |-> 1,
                   dist |-> IF rs.sp THEN RsDist(RsT1(rs), RsT2(rs)) ELSE 0]
    /\ UNCHANGED <<renderVars, tr>>

InitRS == RenderInit /\ tr = TrIdle /\ rs \in RsCalls

SpecRS == InitRS /\ [][RaySphere]_vars

\* ---- trace <-> shade ---------------------------------------------------
\* One primary ray at a time.  tr.refl says which spheres of the scene are
\* reflective (mat.refl > 0.0); which sphere a ray hits, if any, is open.
\* tr.frames holds, innermost last, the spheres whose shade() call is
\* waiting for the trace() of its reflection ray; its length is the depth.
Spheres == 1..MaxSpheres

TrDepth == Len(tr.frames)

\* a mutant of TraceBail: the limit is tested with > instead of >=
TraceBailLate(depth) == depth > MAX_RAY_DEPTH

\* trace, line 191
TraceBail(depth) == depth >= MAX_RAY_DEPTH

\* shade, line 264
ShadeReflects(refl, obj) == refl[obj]

\* render_scanline, line 165: trace(get_primary_ray(i, sl, s), 0)
PrimaryRay ==
    /\ tr.pc \in {"ready", "done"}
    /\ tr.rays < MaxRays
    /\ tr' = [tr EXCEPT !.pc = "call_trace", !.frames = <<>>, !.obj = 0,
                        !.ntrace = 0, !.nshade = 0, !.rays = @ + 1]
    /\ UNCHANGED <<renderVars, rs>>

\* trace, lines 184-212: bail out at the recursion limit; otherwise scan the
\* spheres for the nearest hit, and call shade on it or return black
TraceEnter ==
    /\ tr.pc = "call_trace"
    /\ \/ /\ TraceBail(TrDepth)
          /\ tr' = [tr EXCEPT !.pc = "ret_trace", !.ntrace = @ + 1]
       \/ /\ ~TraceBail(TrDepth)
          /\ \E nearest_obj \in Spheres \cup {0} :
               tr' = [tr EXCEPT !.pc = IF nearest_obj = 0 THEN "ret_trace"
                                       ELSE "call_shade",
                                !.obj = nearest_obj, !.ntrace = @ + 1]
    /\ UNCHANGED <<renderVars, rs>>

\* shade, lines 220-274: direct illumination, then, for a reflective
\* sphere, trace(ray, depth + 1)
ShadeEnter ==
    /\ tr.pc = "call_shade"
    /\ tr' = IF ShadeReflects(tr.refl, tr.obj)
             THEN [tr EXCEPT !.pc = "call_trace", !.nshade = @ + 1,
                             !.frames = Append(@, tr.obj)]
             ELSE [tr EXCEPT !.pc = "ret_shade", !.nshade = @ + 1]
    /\ UNCHANGED <<renderVars, rs>>

\* trace, line 214: return to the shade that called (lines 274-280, which
\* then returns itself) or, at depth 0, to render_scanline
TraceReturn ==
    /\ tr.pc = "ret_trace"
    /\ tr' = IF tr.frames = <<>>
             THEN [tr EXCEPT !.pc = "done"]
             ELSE [tr EXCEPT !.pc = "ret_shade",
                             !.obj = tr.frames[Len(tr.frames)],
                             !.frames = SubSeq(@, 1, Len(@) - 1)]
    /\ UNCHANGED <<renderVars, rs>>

\* shade, line 280: return to trace, line 209
ShadeReturn ==
    /\ tr.pc = "ret_shade"
    /\ tr' = [tr EXCEPT !.pc = "ret_trace"]
    /\ UNCHANGED <<renderVars, rs>>

TraceNext == PrimaryRay \/ TraceEnter \/ ShadeEnter \/ TraceReturn \/ ShadeReturn

InitTrace ==
    /\ RenderInit /\ rs = RsIdle
    /\ tr \in [pc : {"ready"}, refl : [Spheres -> BOOLEAN], frames : {<<>>},
               obj : {0}, ntrace : {0}, nshade : {0}, rays : {0}]

SpecTrace == InitTrace /\ [][TraceNext]_vars /\ WF_vars(TraceNext)

\* ========================================================================
\* Properties
\* ========================================================================

\* the driver has passed line 677: the ranges are final
PartitionDone == pc \in {"mt_release", "mt_join"}

SlStart(t) == threads[<<inv, t>>].sl_start
SlCount(t) == threads[<<inv, t>>].sl_count
SlRange(t) == SlStart(t)..(SlStart(t) + SlCount(t) - 1)
Tids == 0..(thread_num - 1)

\* C1: once cray_mt has assigned the ranges, every scanline of [0, yres)
\* lies in the range of exactly one worker, the ranges follow one another
\* without gap or overlap, and the last range ends at yres.
C1_PartitionExact ==
    PartitionDone =>
        /\ thread_num \in 1..yres
        /\ \A row \in 0..(yres - 1) :
              Cardinality({ t \in Tids : row \in SlRange(t) }) = 1
        /\ \A t \in Tids : SlCount(t) >= 0 /\ SlRange(t) \subseteq 0..(yres - 1)
        /\ SlStart(0) = 0
        /\ \A t \in Tids \ {thread_num - 1} : SlStart(t + 1) = SlStart(t) + SlCount(t)
        /\ SlStart(thread_num - 1) + SlCount(thread_num - 1) = yres

\* C1 witness: a partition of a height that the worker count does not
\* divide, among at least three workers, where the accumulated sum fell
\* below the height
C1_Witness ==
    /\ pc = "mt_release" /\ thread_num >= 3 /\ yres % thread_num # 0 /\ sl.low

\* C2 as stated: every worker but the last gets exactly floor(yres /
\* thread_num) scanlines, the last gets yres minus its start row.
C2_FloorShare ==
    PartitionDone =>
        /\ \A t \in Tids \ {thread_num - 1} : SlCount(t) = yres \div thread_num
        /\ SlCount(thread_num - 1) = yres - SlStart(thread_num - 1)

\* C2 amended: every worker but the last gets floor(yres / thread_num) or
\* one more scanline (exactly the floor when thread_num divides yres), the
\* last gets yres minus its start row.
C2_FloorOrCeilShare ==
    PartitionDone =>
        /\ \A t \in Tids \ {thread_num - 1} :
              /\ SlCount(t) \in {yres \div thread_num, (yres \div thread_num) + 1}
              /\ yres % thread_num = 0 => SlCount(t) = yres \div thread_num
        /\ SlCount(thread_num - 1) = yres - SlStart(thread_num - 1)

\* C2 witness: a partition in which one worker before the last got the
\* floor and another one row more
C2_Witness ==
    /\ pc = "mt_release"
    /\ \E t, u \in Tids \ {thread_num - 1} :
          /\ SlCount(t) = yres \div thread_num
          /\ SlCount(u) = (yres \div thread_num) + 1

\* C3: a worker has rendered a scanline only if the driver of its
\* invocation has created all workers, finalized the last count, set the
\* start flag and broadcast.
C3_NoRenderBeforeRelease ==
    \A w \in Workers : wk[w].i > 0 => hist[w[1]].status = "released"

\* C4: the image cray_mt writes with one worker equals the image cray_f
\* writes for the same dimensions, sample count and jitter tables.
C4_OneWorkerEqualsSequential ==
    (/\ out.f.tag = "image" /\ out.mt.tag = "image"
     /\ out.mt.tn = 1
     /\ out.f.w = out.mt.w /\ out.f.h = out.mt.h /\ out.f.n = out.mt.n
     /\ out.f.jit = out.mt.jit)
    => out.f.px = out.mt.px

\* C5: when pthread_create fails the start flag is not set by that
\* invocation and no worker created in it ever renders a scanline.
C5_AbortedNeverRenders ==
    \A w \in Workers : hist[w[1]].status = "spawn_failed" => wk[w].i = 0

\* C6: once a scene has been built, lnum is the number of lights of the
\* scene and within the capacity of the lights array.
C6_LightsOfOneScene ==
    /\ lnum <= MAX_LIGHTS
    /\ obj_list # "null" => lnum = SCENE_LIGHTS

\* the framebuffer indices of the rows assigned to worker w
OwnIndices(w) ==
    { p \in DOMAIN pixels[w[1]] :
        (p \div hist[w[1]].w) \in
            threads[w].sl_start..(threads[w].sl_start + threads[w].sl_count - 1) }

\* C7: a step of a worker changes nothing but framebuffer pixels of the
\* rows of its own range: no pixel of another row or buffer, not the scene,
\* the image parameters, the jitter tables or another process-wide variable.
C7_WorkersWriteOwnRowsOnly ==
    [][\A w \in Workers :
          WorkerRender(w) =>
            /\ sf' = sf
            /\ UNCHANGED <<xres, yres, rays_per_pixel, lnum, obj_list, urand, start>>
            /\ \A k \in DOMAIN pixels : \A p \in DOMAIN pixels[k] :
                  pixels'[k][p] # pixels[k][p] => (k = w[1] /\ p \in OwnIndices(w))
      ]_vars

\* a root that lies on the ray segment
RsValid(t) == t >= ERR_MARGIN /\ t <= ONE

\* C8: ray_sphere reports a hit only if a root lies in [ERR_MARGIN, 1.0];
\* with a surface point the distance stored is the valid root, the smaller
\* one when both are valid, so it lies in [ERR_MARGIN, 1.0].
C8_HitOnlyWithinSegment ==
    (rs.pc = "ret" /\ ~rs.d_neg /\ rs.hit = 1) =>
        /\ RsValid(RsT1(rs)) \/ RsValid(RsT2(rs))
        /\ rs.sp =>
             /\ RsValid(rs.dist)
             /\ (RsValid(RsT1(rs)) /\ RsValid(RsT2(rs))) => rs.dist = RsT2(rs)
             /\ (RsValid(RsT1(rs)) /\ ~RsValid(RsT2(rs))) => rs.dist = RsT1(rs)
             /\ (~RsValid(RsT1(rs)) /\ RsValid(RsT2(rs))) => rs.dist = RsT2(rs)

\* shade is about to be entered below the limit, and the calls made for the
\* current primary ray are within 6 trace and 5 shade
TraceBounded ==
    /\ tr.pc = "call_shade" => TrDepth < MAX_RAY_DEPTH
    /\ TrDepth <= MAX_RAY_DEPTH
    /\ tr.ntrace <= MAX_RAY_DEPTH + 1
    /\ tr.nshade <= MAX_RAY_DEPTH

\* C9: for every scene and every choice of hits, shade is never entered at
\* depth 5 or more, a primary ray causes at most 6 trace and 5 shade calls,
\* trace entered at depth 5 returns without calling shade, and every
\* primary ray's trace(ray, 0) returns.
C9_RecursionTerminates ==
    /\ []TraceBounded
    /\ [][(tr.pc = "call_trace" /\ TrDepth >= MAX_RAY_DEPTH) => tr'.pc = "ret_trace"]_vars
    /\ (tr.pc = "call_trace") ~> (tr.pc = "done")

\* C9 witness: a primary ray has returned after the longest chain, 6 trace
\* calls and 5 shade calls, every sphere of the scene being reflective
C9_Witness ==
    /\ tr.pc = "done" /\ tr.ntrace = MAX_RAY_DEPTH + 1 /\ tr.nshade = MAX_RAY_DEPTH
    /\ \A o \in Spheres : tr.refl[o]

\* the colours stored in framebuffers and written images
StoredColors ==
    UNION { { pixels[k][p] : p \in DOMAIN pixels[k] } : k \in DOMAIN pixels }
    \cup (IF out.f.tag = "image" THEN { out.f.px[p] : p \in DOMAIN out.f.px } ELSE {})
    \cup (IF out.mt.tag = "image" THEN { out.mt.px[p] : p \in DOMAIN out.mt.px } ELSE {})

\* C10: every pixel that took a jittered sample was computed with the scale
\* factor 1.5 / width of the width of its own invocation.
C10_ScaleFactorOfCurrentWidth ==
    \A c \in StoredColors : (c.tag = "color" /\ c.n > 1) => c.sfw = c.w

\* ---- cray_mt under fair scheduling -------------------------------------
\* every thread identifier an invocation can create
ThreadIds == (1..MaxInv) \X (0..(RerunThreads - 1))

\* the scheduler runs every thread that can run: the driver inside a
\* render call and each worker created; whether a render is requested and
\* whether pthread_create fails is up to the environment
DriverStep ==
    \/ CrayFRow \/ CrayFFinish
    \/ CrayMtCreate \/ CrayMtCreateFail
    \/ CrayMtFinalize \/ CrayMtRelease \/ CrayMtJoin \/ CrayMtFinish

WorkerStep(w) ==
    /\ w \in Workers
    /\ WorkerBarrier(w) \/ WorkerRender(w) \/ WorkerExit(w)

FairScheduling ==
    /\ WF_vars(DriverStep)
    /\ \A w \in ThreadIds : WF_vars(WorkerStep(w))

SpecFair == Init /\ [][Next]_vars /\ FairScheduling

\* cray_mt invoked repeatedly in one process, with one worker or with
\* RerunThreads workers on RerunHeight scanlines, every pthread_create
\* succeeding
RerunNext ==
    \/ \E tn \in {1, RerunThreads} : CrayMtBegin(tn, 1, RerunHeight, 1, 1)
    \/ CrayMtCreate
    \/ CrayMtFinalize
    \/ CrayMtRelease
    \/ CrayMtJoin
    \/ CrayMtFinish
    \/ \E w \in Workers : WorkerBarrier(w)
    \/ \E w \in Workers : WorkerSpuriousWakeup(w)
    \/ \E w \in Workers : WorkerRender(w)
    \/ \E w \in Workers : WorkerExit(w)

SpecRerun == Init /\ [][RerunNext]_vars /\ FairScheduling

\* the join loop of the current cray_mt invocation has returned
JoinReturned == pc = "mt_join" /\ i = thread_num

\* C11, its outcome: when the join loop of a cray_mt invocation whose
\* workers were all created has returned, every worker of the invocation
\* has left the barrier, rendered all rows of its range and exited.
C11_JoinedWorkersRenderedRange ==
    JoinReturned =>
        \A w \in WorkersOf(inv) :
            /\ wk[w].pc = "done"
            /\ wk[w].i = threads[w].sl_count

\* C11, its progress: once all workers of an invocation are created, the
\* join loop eventually returns.
C11_JoinEventuallyReturns ==
    (pc = "mt_release") ~> JoinReturned

====
